---- MODULE Spec2Model ----
(***************************************************************************)
(* Model of the chat Hub (src/internal/hub/hub.go): the routing worker     *)
(* that owns the client set, the user routing table and the rooms, and the *)
(* operations it applies one at a time.  The models package (Room, User,   *)
(* Message) and the transport's Client are not part of the sources; Room   *)
(* is modelled as a member set plus an ordered history, and a Client as a  *)
(* room pointer plus the record of the SendMessage calls made on it.       *)
(*                                                                         *)
(* Spec and SpecSwitch apply whole operations, one per step.  SpecLock     *)
(* follows the goroutines access by access under Hub.mu, and SpecQueue     *)
(* follows the sends on the Hub's channels and the worker's select.        *)
(***************************************************************************)
EXTENDS Integers, Sequences, FiniteSets, TLC

(* ------------------------------ bounds -------------------------------- *)

\* Number of messages the transport submits through Broadcast.
MaxMsgs == 2

\* Connected transport sessions.  c1 and c3 carry the same user id (a
\* reconnect with an unchanged user_id, src/web/static/app.js:73).
Clients == {"c1", "c2", "c3"}

\* The sessions that connect in one run: two users, or one user connected twice.
Casts == {{"c1", "c2"}, {"c1", "c3"}}

UserOf(c) == IF c = "c2" THEN "u2" ELSE "u1"

Username(c) == IF c = "c2" THEN "bob" ELSE "ann"

UserIds == {UserOf(c) : c \in Clients}

\* Room ids a client names in join_room / leave_room / a message's room.
NamedRooms == {"general", "dev"}

\* Room ids named in the runs that only join and leave (SpecSwitch).
SwitchRooms == NamedRooms \cup {"ops"}

\* Ids uuid.New() can return in CreateRoom.
Uuids == {"k1"}

\* Sender ids the transport writes into a message (the Hub never reads them).
Senders == {"u2"}

\* User ids a private message is addressed to; u9 never connects.
Recipients == UserIds \cup {"u9"}

\* A message without a room; a client without a room.
NoRoom == ""

\* The goroutines that touch the Hub's tables: the one that runs Run, and two
\* HTTP handlers that call CreateRoom, GetRooms and GetUsers directly.
Threads == {"worker", "h1", "h2"}

NoThread == ""

\* The handlers Run's select dispatches to, named by their channel.
WorkerJobs == {"register", "unregister", "broadcast", "privateMessage", "joinRoom",
               "leaveRoom"}

\* The calls made from outside the worker.
HttpJobs == {"CreateRoom", "GetRooms", "GetUsers"}

\* The connection goroutines that submit operations to the worker.
Callers == {"p", "q"}

\* The channels of the Hub, one per kind of operation.
Channels == WorkerJobs

\* What a connection submits, in sequence: it registers, then joins, sends
\* and leaves as its user asks, and unregisters when it closes.
Program(p) ==
    IF p = "p" THEN <<"register", "joinRoom", "broadcast", "leaveRoom">>
    ELSE <<"register", "privateMessage", "broadcast", "unregister">>

\* No submission.
NoOp == [p |-> "", n |-> 0, ch |-> ""]

\* The connections to the signaling relay; r1 and r3 connect with the same id.
Conns == {"r1", "r2", "r3"}

IdOf(c) == IF c = "r2" THEN "b" ELSE "a"

\* The ids a signaling message is addressed to; nobody connects as z.
RelayIds == {IdOf(c) : c \in Conns} \cup {"z"}

\* The capacity of a connection's Send channel (256 in the source).
SendCap == 1

\* Number of texts the relay connections read from their peers.
MaxReads == 2

\* Number of operations the connections submit in the runs of the whole loop.
MaxSubmits == 3

\* The id of the web client's user, and the ids of the users that signal to it.
MyId == "a"

Peers == {"b", "c"}

\* Number of ICE candidates that arrive at the web client.
MaxIce == 1

\* Number of the web client's handlers that wait at an await at one time.
MaxTasks == 2

\* A Message without data: a nil []byte.
Nil == "nil"

\* No Message.
NoMsg == [From |-> "", To |-> "", Type |-> "", Data |-> Nil]

\* The id a connection's user calls.
PeerOf(c) == IF c = "r2" THEN "a" ELSE "b"

\* The n-th text a peer sends on connection c: a JSON object with from, to, type
\* and data (here the number n) addressed to another id, one with a type the
\* relay does not know and without data, or a text that is not JSON.
Texts(c, n) ==
    {[from |-> IdOf(c), to |-> t, type |-> "offer", data |-> ToString(n)] :
        t \in RelayIds \ {IdOf(c)}}
    \cup {[from |-> IdOf(c), to |-> PeerOf(c), type |-> "zzz"]}
    \cup {[garbage |-> TRUE]}

VARIABLES
    sessions,     \* the transport sessions of this run
    running,      \* Run has entered its loop (the default room exists)
    clients,      \* Hub.clients: set of registered Client handles
    userClients,  \* Hub.userClients: user id -> Client handle
    rooms,        \* Hub.rooms: room id -> Room
    roomID,       \* per Client: the room pointer (GetRoomID / SetRoomID)
    userRoom,     \* per Client: GetUser().Room
    nextId,       \* id of the next message the transport builds
    sent,         \* per Client: the SendMessage calls of the last operation
    lastOp,       \* the last operation applied
    accepted,     \* per room id: broadcastRoom messages processed while the room existed
    mu,           \* Hub.mu: the thread holding the write lock, the threads holding the
                  \* read lock, the thread whose Lock() is pending or granted
    pc,           \* per thread: where it stands in the call it is running
    job,          \* per thread: the call it is running
    step,         \* per thread: the access of that call it is performing
    pending,      \* the channel sends that block, waiting for the worker's receive
    started,      \* the submissions, in the order their sends started
    applied,      \* the submissions, in the order the worker applied them
    cur,          \* the submission the worker received and is applying
    listed,       \* what the last GetRooms / GetUsers calls returned
    shown,        \* the tables as they were when those calls were made
    rclients,     \* relay Hub.clients: id -> connection
    queue,        \* per relay connection: the contents of its Send channel
    closed,       \* per relay connection: its Send channel has been closed
    rpc,          \* per relay connection: where its handler stands
    rmsg,         \* per relay connection: the Message it is sending on Broadcast
    nread,        \* number of texts the relay connections have read
    dropped,      \* the data (each is unique) of the messages dropped on a full queue
    fault,        \* the relay worker panicked
    lastR,        \* the last case the relay worker ran
    submitted,    \* the Messages the read loops sent on Broadcast, in the order read
    written,      \* per relay connection: the texts its write loop has written
    vc,           \* the web client's VideoCall object
    tasks,        \* the web client's handlers that wait at an await
    wsSent,       \* the signaling messages the web client sent in its last step
    ev,           \* the last event the web client handled
    nIce          \* number of ICE candidates that have arrived at the web client

\* The Hub's tables, the clients' fields and the record of the last operation.
hubVars == <<sessions, running, clients, userClients, rooms, roomID, userRoom, nextId,
             sent, lastOp, accepted>>

\* The lock and the threads that take it.
lockVars == <<mu, pc, job, step>>

\* The six channels and the worker's select.
queueVars == <<pending, started, applied, cur>>

\* The values the accessors returned.
listVars == <<listed, shown>>

\* The signaling relay (src/video_service) and its connections.
relayVars == <<rclients, queue, closed, rpc, rmsg, nread, dropped, fault, lastR>>

\* The record of what the relay's read loops submitted and its write loops wrote.
fifoVars == <<submitted, written>>

\* The web client (src/web/static/video_call.js).
callVars == <<vc, tasks, wsSent, ev, nIce>>

vars == <<hubVars, lockVars, queueVars, listVars, relayVars, fifoVars, callVars>>

(* --------------------------- data records ----------------------------- *)

\* models.Message; the uuid of a Hub-built system message is read by nobody
\* and is written 0.
Message(id, type, content, sender, room) ==
    [ID |-> id, Type |-> type, Content |-> content, Sender |-> sender, Room |-> room]

\* models.NewRoom
NewRoom(id, name) == [ID |-> id, Name |-> name, Users |-> {}, Messages |-> <<>>]

\* Room.AddUser
AddUser(room, u) == [room EXCEPT !.Users = @ \cup {u}]

\* Room.RemoveUser
RemoveUser(room, u) == [room EXCEPT !.Users = @ \ {u}]

\* Room.AddMessage
AddMessage(room, m) == [room EXCEPT !.Messages = Append(@, m)]

\* Client.SendMessage: one more message handed to the handle c.
SendMessage(out, c, m) == [out EXCEPT ![c] = Append(@, m)]

NoSends == [c \in Clients |-> <<>>]

Op(op, c, r, id) == [op |-> op, c |-> c, r |-> r, id |-> id]

\* No RTCPeerConnection: this.pc is null.
NoPc == [peer |-> "", localDescription |-> "", remoteDescription |-> FALSE, added |-> <<>>]

\* peerIdInCall is null.
Null == ""

\* new RTCPeerConnection, set up for a call with peerId: no description yet,
\* no candidate added.
RTCPeerConnection(peerId) ==
    [peer |-> peerId, localDescription |-> "none", remoteDescription |-> FALSE,
     added |-> <<>>]

\* The VideoCall object after its constructor and the opening of its
\* signaling socket.
VideoCall ==
    [pc |-> NoPc, inCall |-> FALSE, isCaller |-> FALSE, peerIdInCall |-> Null,
     pendingCandidates |-> <<>>, localStream |-> FALSE, ws |-> TRUE]

\* No event handled yet.
NoEvent == [kind |-> "new", from |-> "", type |-> "", ran |-> FALSE, ended |-> FALSE]

(* ------------------------------ helpers ------------------------------- *)

\* delete(map, key)
Delete(f, k) == [x \in (DOMAIN f) \ {k} |-> f[x]]

\* The orders in which a range over a map with key set S can visit its keys.
Orders(S) == {o \in [1..Cardinality(S) -> S] : \A i, j \in 1..Cardinality(S) : o[i] = o[j] => i = j}

LeaveMessage(c, r) == Message(0, "leave", Username(c) \o " left the room", "System", r)

JoinMessage(c, r) == Message(0, "join", Username(c) \o " joined the room", "System", r)

WelcomeMessage == Message(0, "system", "Welcome to the chat!", "System", NoRoom)

RECURSIVE getRoomsListFrom(_, _, _)
getRoomsListFrom(rms, order, i) ==
    IF i > Len(order) THEN ""
    ELSE rms[order[i]].Name \o " (" \o rms[order[i]].ID \o "), "
         \o getRoomsListFrom(rms, order, i + 1)

\* Hub.getRoomsList, visiting the rooms in the given order.
getRoomsList(rms, order) == "Available rooms: " \o getRoomsListFrom(rms, order, 1)

\* Hub.broadcastToRoom
broadcastToRoom(rms, uc, out, roomId, m) ==
    IF roomId \notin DOMAIN rms THEN out
    ELSE [c \in Clients |->
            IF \E u \in rms[roomId].Users : u \in DOMAIN uc /\ uc[u] = c
            THEN Append(out[c], m) ELSE out[c]]

(* ------------------------------- Init --------------------------------- *)

\* NewHub
Init ==
    /\ sessions \in Casts
    /\ running = FALSE
    /\ clients = {}
    /\ userClients = <<>>
    /\ rooms = <<>>
    /\ roomID = [c \in Clients |-> NoRoom]
    /\ userRoom = [c \in Clients |-> NoRoom]
    /\ nextId = 1
    /\ sent = NoSends
    /\ lastOp = Op("new", "", "", 0)
    /\ accepted = [r \in NamedRooms \cup SwitchRooms \cup Uuids |-> <<>>]
    /\ mu = [w |-> NoThread, r |-> {}, ann |-> NoThread]
    /\ pc = [t \in Threads |-> IF t = "worker" THEN "lock" ELSE "idle"]
    /\ job = [t \in Threads |-> IF t = "worker" THEN "Run" ELSE ""]
    /\ step = [t \in Threads |-> 0]
    /\ pending = {}
    /\ started = <<>>
    /\ applied = <<>>
    /\ cur = NoOp
    /\ listed = [rooms |-> <<>>, users |-> <<>>, calls |-> {}]
    /\ shown = [rooms |-> <<>>, users |-> <<>>]
    /\ rclients = <<>>
    /\ queue = [c \in Conns |-> <<>>]
    /\ closed = [c \in Conns |-> FALSE]
    /\ rpc = [c \in Conns |-> "new"]
    /\ rmsg = [c \in Conns |-> NoMsg]
    /\ nread = 0
    /\ dropped = {}
    /\ fault = FALSE
    /\ lastR = [op |-> "new", c |-> "", msg |-> NoMsg]
    /\ submitted = <<>>
    /\ written = [c \in Conns |-> <<>>]
    /\ vc = VideoCall
    /\ tasks = {}
    /\ wsSent = <<>>
    /\ ev = NoEvent
    /\ nIce = 0

(* ------------------------------ actions ------------------------------- *)

\* Run, before its loop: the default room.
RunStart ==
    /\ ~running
    /\ running' = TRUE
    /\ rooms' = ("general" :> NewRoom("general", "General Chat")) @@ rooms
    /\ sent' = NoSends
    /\ lastOp' = Op("run", "", "", 0)
    /\ UNCHANGED <<sessions, clients, userClients, roomID, userRoom, nextId, accepted>>
    /\ UNCHANGED <<lockVars, queueVars, relayVars, fifoVars, listVars, callVars>>

\* Mutant: the list of rooms is sent before the welcome.
registerClient_listFirst(c, order) ==
    /\ clients' = clients \cup {c}
    /\ userClients' = (UserOf(c) :> c) @@ userClients
    /\ sent' = SendMessage(SendMessage(NoSends, c,
                    Message(0, "system", getRoomsList(rooms, order), "System", NoRoom)),
                    c, WelcomeMessage)
    /\ UNCHANGED rooms

\* registerClient; order is the order in which getRoomsList ranges over rooms.
registerClient(c, order) ==
    /\ clients' = clients \cup {c}
    /\ userClients' = (UserOf(c) :> c) @@ userClients
    /\ sent' = SendMessage(SendMessage(NoSends, c, WelcomeMessage), c,
                           Message(0, "system", getRoomsList(rooms, order), "System", NoRoom))
    /\ UNCHANGED rooms

\* Register: the transport registers a connection once, right after it built
\* the Client and its User, which start with no room.
Register(c) ==
    /\ running
    /\ c \notin clients
    /\ roomID' = [roomID EXCEPT ![c] = NoRoom]
    /\ userRoom' = [userRoom EXCEPT ![c] = NoRoom]
    /\ \E order \in Orders(DOMAIN rooms) : registerClient(c, order)
    /\ lastOp' = Op("register", c, "", 0)
    /\ UNCHANGED <<sessions, running, nextId, accepted>>
    /\ UNCHANGED <<lockVars, queueVars, relayVars, fifoVars, listVars, callVars>>

\* unregisterClient, lines 222-224: the room the client is removed from.
\* Mutant: a room is deleted when the client that disconnects was its last
\* member.
unregisterRooms_gc(rms, c) ==
    IF roomID[c] # NoRoom /\ roomID[c] \in DOMAIN rms
    THEN IF rms[roomID[c]].Users \subseteq {UserOf(c)}
         THEN Delete(rms, roomID[c])
         ELSE [rms EXCEPT ![roomID[c]] = RemoveUser(@, UserOf(c))]
    ELSE rms

unregisterRooms(rms, c) ==
    IF roomID[c] # NoRoom /\ roomID[c] \in DOMAIN rms
    THEN [rms EXCEPT ![roomID[c]] = RemoveUser(@, UserOf(c))]
    ELSE rms

\* Mutant: the leave notification is sent before the user is removed.
unregisterSends_beforeRemoval(rms, c) ==
    IF roomID[c] # NoRoom /\ roomID[c] \in DOMAIN rooms
    THEN broadcastToRoom(rooms, userClients, NoSends, roomID[c], LeaveMessage(c, roomID[c]))
    ELSE NoSends

\* unregisterClient, lines 226-235: the leave notification.
unregisterSends(rms, c) ==
    IF roomID[c] # NoRoom /\ roomID[c] \in DOMAIN rms
    THEN broadcastToRoom(rms, userClients, NoSends, roomID[c], LeaveMessage(c, roomID[c]))
    ELSE NoSends

\* Mutant: the client is not looked up in the client set.
unregisterClient_unguarded(c) ==
    /\ rooms' = unregisterRooms(rooms, c)
    /\ sent' = unregisterSends(rooms', c)
    /\ clients' = clients \ {c}
    /\ userClients' = Delete(userClients, UserOf(c))
    /\ UNCHANGED <<roomID, userRoom>>

unregisterClient(c) ==
    IF c \in clients
    THEN /\ rooms' = unregisterRooms(rooms, c)
         /\ sent' = unregisterSends(rooms', c)
         /\ clients' = clients \ {c}
         /\ userClients' = Delete(userClients, UserOf(c))
         /\ UNCHANGED <<roomID, userRoom>>
    ELSE /\ sent' = NoSends
         /\ UNCHANGED <<clients, userClients, rooms, roomID, userRoom>>

Unregister(c) ==
    /\ running
    /\ unregisterClient(c)
    /\ lastOp' = Op("unregister", c, "", 0)
    /\ UNCHANGED <<sessions, running, nextId, accepted>>
    /\ UNCHANGED <<lockVars, queueVars, relayVars, fifoVars, listVars, callVars>>

\* Mutant: a missing room is created, as handleJoinRoom does.
broadcastHistory_autoCreate(rms, m) ==
    IF m.Room = NoRoom THEN rms
    ELSE IF m.Room \in DOMAIN rms
    THEN [rms EXCEPT ![m.Room] = AddMessage(@, m)]
    ELSE (m.Room :> AddMessage(NewRoom(m.Room, m.Room), m)) @@ rms

\* broadcastMessage, lines 250-254: the history write.
broadcastHistory(rms, m) ==
    IF m.Room # NoRoom /\ m.Room \in DOMAIN rms
    THEN [rms EXCEPT ![m.Room] = AddMessage(@, m)]
    ELSE rms

\* Mutant: the message goes to every registered client, whatever its room.
broadcastSends_everyone(rms, uc, m) ==
    IF m.Room # NoRoom /\ m.Room \in DOMAIN rms
    THEN [c \in Clients |-> IF \E u \in DOMAIN uc : uc[u] = c THEN <<m>> ELSE <<>>]
    ELSE NoSends

\* broadcastMessage, lines 250-258: the delivery.
broadcastSends(rms, uc, m) ==
    IF m.Room # NoRoom THEN broadcastToRoom(rms, uc, NoSends, m.Room, m) ELSE NoSends

broadcastMessage(m) ==
    /\ rooms' = broadcastHistory(rooms, m)
    /\ sent' = broadcastSends(rooms', userClients, m)
    /\ UNCHANGED <<clients, userClients, roomID, userRoom>>

\* Broadcast: the transport builds a text message with a fresh id.
Broadcast(sender, r) ==
    /\ running
    /\ nextId <= MaxMsgs
    /\ LET m == Message(nextId, "text", "hi", sender, r)
       IN /\ broadcastMessage(m)
          /\ accepted' = IF r \in DOMAIN rooms
                         THEN [accepted EXCEPT ![r] = Append(@, m)]
                         ELSE accepted
    /\ nextId' = IF r \in DOMAIN rooms THEN nextId + 1 ELSE nextId
    /\ lastOp' = Op("broadcast", "", r, nextId)
    /\ UNCHANGED <<sessions, running>>
    /\ UNCHANGED <<lockVars, queueVars, relayVars, fifoVars, listVars, callVars>>

\* Mutant: the private message is also delivered to the recipient's room.
sendPrivateMessage_viaRoom(userId, m) ==
    /\ sent' = IF userId \in DOMAIN userClients
               THEN broadcastToRoom(rooms, userClients,
                                    SendMessage(NoSends, userClients[userId], m),
                                    roomID[userClients[userId]], m)
               ELSE NoSends
    /\ UNCHANGED <<clients, userClients, rooms, roomID, userRoom>>

\* sendPrivateMessage
sendPrivateMessage(userId, m) ==
    /\ sent' = IF userId \in DOMAIN userClients
               THEN SendMessage(NoSends, userClients[userId], m)
               ELSE NoSends
    /\ UNCHANGED <<clients, userClients, rooms, roomID, userRoom>>

\* SendToUser: a private message, which carries no room.
SendToUser(sender, userId) ==
    /\ running
    /\ sendPrivateMessage(userId, Message(0, "private", "psst", sender, NoRoom))
    /\ lastOp' = Op("private", "", userId, 0)
    /\ UNCHANGED <<sessions, running, nextId, accepted>>
    /\ UNCHANGED <<lockVars, queueVars, relayVars, fifoVars, listVars, callVars>>

\* handleJoinRoom, lines 290-294: leaving the current room.
joinLeaveRooms(rms, c) ==
    IF roomID[c] # NoRoom /\ roomID[c] \in DOMAIN rms
    THEN [rms EXCEPT ![roomID[c]] = RemoveUser(@, UserOf(c))]
    ELSE rms

\* handleJoinRoom, lines 295-303: the leave notification to the old room.
joinLeaveSends(rms, uc, c) ==
    IF roomID[c] # NoRoom /\ roomID[c] \in DOMAIN rms
    THEN broadcastToRoom(rms, uc, NoSends, roomID[c], LeaveMessage(c, roomID[c]))
    ELSE NoSends

\* Mutant: the room a join creates gets the default room's name.
joinEnsureRoom_defaultName(rms, r) ==
    IF r \in DOMAIN rms THEN rms ELSE (r :> NewRoom(r, "General Chat")) @@ rms

\* Mutant: the room is created anew on every join.
joinEnsureRoom_recreate(rms, r) == (r :> NewRoom(r, r)) @@ rms

\* handleJoinRoom, lines 308-313: the room is created when it does not exist.
joinEnsureRoom(rms, r) ==
    IF r \in DOMAIN rms THEN rms ELSE (r :> NewRoom(r, r)) @@ rms

\* Mutant: the replay starts at the second message.
joinReplay_skipFirst(out, c, room) ==
    [out EXCEPT ![c] = @ \o (IF room.Messages = <<>> THEN <<>> ELSE Tail(room.Messages))]

\* handleJoinRoom, lines 331-333: the history replay.
joinReplay(out, c, room) == [out EXCEPT ![c] = @ \o room.Messages]

handleJoinRoom(c, r) ==
    LET left    == joinLeaveRooms(rooms, c)
        out1    == joinLeaveSends(left, userClients, c)
        ensured == joinEnsureRoom(left, r)
        joined  == [ensured EXCEPT ![r] = AddUser(@, UserOf(c))]
        out2    == broadcastToRoom(joined, userClients, out1, r, JoinMessage(c, r))
    IN /\ rooms' = joined
       /\ userRoom' = [userRoom EXCEPT ![c] = r]
       /\ roomID' = [roomID EXCEPT ![c] = r]
       /\ sent' = joinReplay(out2, c, joined[r])
       /\ UNCHANGED <<clients, userClients>>


\* JoinRoom: submitted by the read loop of a registered connection.
JoinRoom(c, r) ==
    /\ running
    /\ c \in clients
    /\ handleJoinRoom(c, r)
    /\ lastOp' = Op("join", c, r, 0)
    /\ UNCHANGED <<sessions, running, nextId, accepted>>
    /\ UNCHANGED <<lockVars, queueVars, relayVars, fifoVars, listVars, callVars>>

\* handleLeaveRoom, lines 344-345: the member set after the leave.
leaveRooms(rms, c, r) ==
    IF r \in DOMAIN rms THEN [rms EXCEPT ![r] = RemoveUser(@, UserOf(c))] ELSE rms

\* handleLeaveRoom, lines 349-357: the leave notification.
leaveSends(rms, uc, c, r) ==
    IF r \in DOMAIN rms
    THEN broadcastToRoom(rms, uc, NoSends, r, LeaveMessage(c, r))
    ELSE NoSends

handleLeaveRoom(c, r) ==
    /\ rooms' = leaveRooms(rooms, c, r)
    /\ sent' = leaveSends(rooms', userClients, c, r)
    /\ IF r \in DOMAIN rooms
       THEN /\ userRoom' = [userRoom EXCEPT ![c] = NoRoom]
            /\ roomID' = [roomID EXCEPT ![c] = NoRoom]
       ELSE UNCHANGED <<roomID, userRoom>>
    /\ UNCHANGED <<clients, userClients>>

\* LeaveRoom: submitted by the read loop of a registered connection.
LeaveRoom(c, r) ==
    /\ running
    /\ c \in clients
    /\ handleLeaveRoom(c, r)
    /\ lastOp' = Op("leave", c, r, 0)
    /\ UNCHANGED <<sessions, running, nextId, accepted>>
    /\ UNCHANGED <<lockVars, queueVars, relayVars, fifoVars, listVars, callVars>>

\* CreateRoom, called directly by the HTTP handler; id is what uuid.New() returns.
\* Mutant: the room table is rebuilt with the new room only.
createRoom_rebuild(rms, id, name) == (id :> NewRoom(id, name))

\* Lines 174-177: room := models.NewRoom(uuid, name); h.rooms[room.ID] = room.
createRoom(rms, id, name) == (id :> NewRoom(id, name)) @@ rms

\* CreateRoom, called by an HTTP handler, under h.mu.Lock().  id is the
\* value of uuid.New(), which no room of the table has.
CreateRoom(id, name) ==
    /\ id \notin DOMAIN rooms
    /\ rooms' = createRoom(rooms, id, name)
    /\ sent' = NoSends
    /\ lastOp' = Op("create", "", id, 0)
    /\ UNCHANGED <<sessions, running, clients, userClients, roomID, userRoom, nextId,
                   accepted>>
    /\ UNCHANGED <<lockVars, queueVars, relayVars, fifoVars, listVars, callVars>>

Next ==
    \/ RunStart
    \/ \E c \in sessions : Register(c)
    \/ \E c \in sessions : Unregister(c)
    \/ \E c \in sessions : \E r \in NamedRooms : JoinRoom(c, r)
    \/ \E c \in sessions : \E r \in NamedRooms : LeaveRoom(c, r)
    \/ \E u \in Senders : \E r \in NamedRooms \cup {NoRoom} : Broadcast(u, r)
    \/ \E u \in Senders : \E to \in Recipients : SendToUser(u, to)
    \/ \E id \in Uuids : CreateRoom(id, "team")

Spec == Init /\ [][Next]_vars

\* Runs that only register, join and leave, over three room names.
NextSwitch ==
    \/ RunStart
    \/ \E c \in sessions : Register(c)
    \/ \E c \in sessions : Unregister(c)
    \/ \E c \in sessions : \E r \in SwitchRooms : JoinRoom(c, r)
    \/ \E c \in sessions : \E r \in SwitchRooms : LeaveRoom(c, r)

SpecSwitch == Init /\ [][NextSwitch]_vars

(* ----------------------------- accessors ------------------------------ *)

\* A *models.Room.  The Room the table holds under an id is built once and
\* never replaced, so the pointer to it is written as that id.
Deref(rms, ptr) == rms[ptr]

\* GetRooms: a fresh map with the entries of Hub.rooms, which are pointers
\* to the Hub's Rooms.
GetRooms(rms) == [id \in DOMAIN rms |-> id]

\* GetUsers: a fresh map with the entries of Hub.userClients.
GetUsers(uc) == [u \in DOMAIN uc |-> uc[u]]

\* listRooms: the directory entries { id, name, user_count } of the rooms.
listRooms(rms) ==
    {[id |-> Deref(rms, GetRooms(rms)[r]).ID, name |-> Deref(rms, GetRooms(rms)[r]).Name,
      user_count |-> Cardinality(Deref(rms, GetRooms(rms)[r]).Users)] :
        r \in DOMAIN GetRooms(rms)}

\* An HTTP handler calls GetRooms and keeps what it returned.
ListRooms ==
    /\ "GetRooms" \notin listed.calls
    /\ listed' = [listed EXCEPT !.rooms = GetRooms(rooms), !.calls = @ \cup {"GetRooms"}]
    /\ shown' = [shown EXCEPT !.rooms = rooms]
    /\ UNCHANGED <<hubVars, lockVars, queueVars, relayVars, fifoVars, callVars>>

\* An HTTP handler calls GetUsers and keeps what it returned.
ListUsers ==
    /\ "GetUsers" \notin listed.calls
    /\ listed' = [listed EXCEPT !.users = GetUsers(userClients), !.calls = @ \cup {"GetUsers"}]
    /\ shown' = [shown EXCEPT !.users = userClients]
    /\ UNCHANGED <<hubVars, lockVars, queueVars, relayVars, fifoVars, callVars>>

\* The runs in which HTTP handlers list the rooms and the users while
\* connections register, join, send and unregister.
NextList ==
    \/ RunStart
    \/ \E c \in sessions : Register(c)
    \/ \E c \in sessions : Unregister(c)
    \/ \E c \in sessions : \E r \in NamedRooms : JoinRoom(c, r)
    \/ \E u \in Senders : \E r \in NamedRooms : Broadcast(u, r)
    \/ ListRooms
    \/ ListUsers

SpecList == Init /\ [][NextList]_vars

(* ------------------------- the lock, Hub.mu --------------------------- *)

\* The reads broadcastToRoom makes, lines 262-268.
broadcastToRoomReads == << <<"rooms", "r">>, <<"members", "r">>, <<"userClients", "r">> >>

\* What a call touches, in order, on its longest path: <<table, "r" or "w">>.
\* members and history are the Users and Messages of a Room of the table.
Accesses(k) ==
    CASE k = "Run"            -> << <<"rooms", "w">> >>
      [] k = "register"       -> << <<"clients", "w">>, <<"userClients", "w">>,
                                    <<"rooms", "r">> >>
      [] k = "unregister"     -> << <<"clients", "r">>, <<"rooms", "r">>,
                                    <<"members", "w">> >>
                                 \o broadcastToRoomReads
                                 \o << <<"clients", "w">>, <<"userClients", "w">> >>
      [] k = "broadcast"      -> << <<"rooms", "r">>, <<"history", "w">> >>
                                 \o broadcastToRoomReads
      [] k = "privateMessage" -> << <<"userClients", "r">> >>
      [] k = "joinRoom"       -> << <<"rooms", "r">>, <<"members", "w">> >>
                                 \o broadcastToRoomReads
                                 \o << <<"rooms", "r">>, <<"rooms", "w">>,
                                       <<"members", "w">> >>
                                 \o broadcastToRoomReads
                                 \o << <<"history", "r">> >>
      [] k = "leaveRoom"      -> << <<"rooms", "r">>, <<"members", "w">> >>
                                 \o broadcastToRoomReads
      [] k = "CreateRoom"     -> << <<"rooms", "w">> >>
      [] k = "GetRooms"       -> << <<"rooms", "r">> >>
      [] k = "GetUsers"       -> << <<"userClients", "r">> >>

\* The lock a call takes before its first access: h.mu.Lock(), h.mu.RLock(),
\* or none.
LockMode(k) ==
    CASE k \in {"register", "unregister", "joinRoom", "leaveRoom", "CreateRoom"} -> "w"
      [] k \in {"broadcast", "privateMessage", "GetRooms", "GetUsers"} -> "r"
      [] k = "Run" -> "none"

\* Run's select hands an operation to its handler.
Select(k) ==
    /\ pc["worker"] = "idle"
    /\ pc' = [pc EXCEPT !["worker"] = "lock"]
    /\ job' = [job EXCEPT !["worker"] = k]
    /\ UNCHANGED <<mu, step, hubVars, queueVars, relayVars, fifoVars, listVars, callVars>>

\* An HTTP handler calls CreateRoom, GetRooms or GetUsers.
Call(t, k) ==
    /\ pc[t] = "idle"
    /\ pc' = [pc EXCEPT ![t] = "lock"]
    /\ job' = [job EXCEPT ![t] = k]
    /\ UNCHANGED <<mu, step, hubVars, queueVars, relayVars, fifoVars, listVars, callVars>>

\* h.mu.Lock(), first part: the caller becomes the one pending writer.  From
\* here on a call of RLock waits until this writer has had the lock.
Announce(t) ==
    /\ pc[t] = "lock" /\ LockMode(job[t]) = "w"
    /\ mu.ann = NoThread
    /\ mu' = [mu EXCEPT !.ann = t]
    /\ UNCHANGED <<pc, job, step, hubVars, queueVars, relayVars, fifoVars, listVars, callVars>>

\* h.mu.Lock(), second part: the readers that held the lock have left.
Lock(t) ==
    /\ pc[t] = "lock" /\ LockMode(job[t]) = "w"
    /\ mu.ann = t
    /\ mu.w = NoThread /\ mu.r = {}
    /\ mu' = [mu EXCEPT !.w = t]
    /\ pc' = [pc EXCEPT ![t] = "body"]
    /\ step' = [step EXCEPT ![t] = 1]
    /\ UNCHANGED <<job, hubVars, queueVars, relayVars, fifoVars, listVars, callVars>>

\* h.mu.RLock()
RLock(t) ==
    /\ pc[t] = "lock" /\ LockMode(job[t]) = "r"
    /\ mu.w = NoThread /\ mu.ann = NoThread
    /\ mu' = [mu EXCEPT !.r = @ \cup {t}]
    /\ pc' = [pc EXCEPT ![t] = "body"]
    /\ step' = [step EXCEPT ![t] = 1]
    /\ UNCHANGED <<job, hubVars, queueVars, relayVars, fifoVars, listVars, callVars>>

\* Run, lines 81-82: the default room is written with no lock taken.
RunWrite ==
    /\ pc["worker"] = "lock" /\ LockMode(job["worker"]) = "none"
    /\ pc' = [pc EXCEPT !["worker"] = "body"]
    /\ step' = [step EXCEPT !["worker"] = 1]
    /\ UNCHANGED <<mu, job, hubVars, queueVars, relayVars, fifoVars, listVars, callVars>>

\* The call goes on to its next access.
Access(t) ==
    /\ pc[t] = "body" /\ step[t] < Len(Accesses(job[t]))
    /\ step' = [step EXCEPT ![t] = @ + 1]
    /\ UNCHANGED <<mu, pc, job, hubVars, queueVars, relayVars, fifoVars, listVars, callVars>>

\* Mutant: only the read lock is given back.
Unlock_readOnly(m, t) == [m EXCEPT !.r = @ \ {t}]

\* The deferred h.mu.Unlock() / h.mu.RUnlock() of thread t.
Unlock(m, t) ==
    [w   |-> IF m.w = t THEN NoThread ELSE m.w,
     r   |-> m.r \ {t},
     ann |-> IF m.ann = t THEN NoThread ELSE m.ann]

\* The call returns; the deferred Unlock / RUnlock runs.
Return(t) ==
    /\ pc[t] = "body" /\ step[t] = Len(Accesses(job[t]))
    /\ mu' = Unlock(mu, t)
    /\ pc' = [pc EXCEPT ![t] = "idle"]
    /\ job' = [job EXCEPT ![t] = ""]
    /\ step' = [step EXCEPT ![t] = 0]
    /\ UNCHANGED <<hubVars, queueVars, relayVars, fifoVars, listVars, callVars>>

NextLock ==
    \/ \E k \in WorkerJobs : Select(k)
    \/ \E t \in Threads \ {"worker"} : \E k \in HttpJobs : Call(t, k)
    \/ \E t \in Threads : Announce(t)
    \/ \E t \in Threads : Lock(t)
    \/ \E t \in Threads : RLock(t)
    \/ RunWrite
    \/ \E t \in Threads : Access(t)
    \/ \E t \in Threads : Return(t)

SpecLock == Init /\ [][NextLock]_vars

(* ----------------------- the channels and select ---------------------- *)

\* Mutant: the channels are buffered, a send returns at once.
Blocked_buffered(p) == FALSE

\* A send on an unbuffered channel returns when the worker has received it.
Blocked(p) == \E x \in pending : x.p = p

\* The number of submissions caller p has started.
Submitted(p) == Cardinality({i \in 1..Len(started) : started[i].p = p})

\* The place of a submission in the order the sends started.
StartedAt(x) == CHOOSE i \in 1..Len(started) : started[i] = x

\* Register .. LeaveRoom: the caller sends on the channel of the operation.
Submit(p) ==
    /\ ~Blocked(p)
    /\ Submitted(p) < Len(Program(p))
    /\ LET x == [p |-> p, n |-> Submitted(p) + 1, ch |-> Program(p)[Submitted(p) + 1]]
       IN /\ pending' = pending \cup {x}
          /\ started' = Append(started, x)
    /\ UNCHANGED <<applied, cur, hubVars, lockVars, relayVars, fifoVars, listVars, callVars>>

\* Run's select: one of the channels with a waiting sender is chosen; of the
\* senders that wait on one channel, the one that waits longest is received.
Receive(ch) ==
    /\ cur = NoOp
    /\ \E x \in pending :
         /\ x.ch = ch
         /\ \A y \in pending : y.ch = ch => StartedAt(x) <= StartedAt(y)
         /\ cur' = x
         /\ pending' = pending \ {x}
    /\ UNCHANGED <<started, applied, hubVars, lockVars, relayVars, fifoVars, listVars, callVars>>

\* The handler of the received operation runs to its end.
Apply ==
    /\ cur # NoOp
    /\ applied' = Append(applied, cur)
    /\ cur' = NoOp
    /\ UNCHANGED <<pending, started, hubVars, lockVars, relayVars, fifoVars, listVars, callVars>>

NextQueue ==
    \/ \E p \in Callers : Submit(p)
    \/ \E ch \in Channels : Receive(ch)
    \/ Apply

SpecQueue == Init /\ [][NextQueue]_vars

(* ------------------- the worker's loop as a whole --------------------- *)

\* Run's select receives a submission; the worker is between two handlers.
Take(ch) ==
    /\ pc["worker"] = "idle"
    /\ Receive(ch)

\* The case of the select calls the handler of the operation received.
Handle ==
    /\ cur # NoOp
    /\ Select(cur.ch)

\* The handler returns, its deferred unlock runs, and the worker is back at
\* its select: the operation is applied.
Done ==
    /\ pc["worker"] = "body" /\ job["worker"] # "Run"
    /\ step["worker"] = Len(Accesses(job["worker"]))
    /\ mu' = Unlock(mu, "worker")
    /\ pc' = [pc EXCEPT !["worker"] = "idle"]
    /\ job' = [job EXCEPT !["worker"] = ""]
    /\ step' = [step EXCEPT !["worker"] = 0]
    /\ applied' = Append(applied, cur)
    /\ cur' = NoOp
    /\ UNCHANGED <<pending, started, hubVars, relayVars, fifoVars, listVars, callVars>>

\* Run has written the default room and enters its loop.
RunLoop ==
    /\ job["worker"] = "Run"
    /\ Return("worker")

\* The connections submit, the worker receives and runs the handlers under
\* the lock, and HTTP handlers call CreateRoom, GetRooms and GetUsers.
NextProgress ==
    \/ \E p \in Callers : Len(started) < MaxSubmits /\ Submit(p)
    \/ \E ch \in Channels : Take(ch)
    \/ Handle
    \/ Done
    \/ RunWrite
    \/ RunLoop
    \/ \E t \in Threads \ {"worker"} : \E k \in HttpJobs : Call(t, k)
    \/ \E t \in Threads : Announce(t)
    \/ \E t \in Threads : Lock(t)
    \/ \E t \in Threads : RLock(t)
    \/ \E t \in Threads : Access(t)
    \/ \E t \in Threads \ {"worker"} : Return(t)

\* A step of thread t that is up to the thread and the lock: not the
\* decision of an HTTP handler to make a call.
StepOf(t) ==
    \/ Announce(t) \/ Lock(t) \/ RLock(t) \/ Access(t)
    \/ t = "worker" /\ (RunWrite \/ RunLoop \/ Handle \/ Done \/ \E ch \in Channels : Take(ch))
    \/ t # "worker" /\ Return(t)

\* Fair scheduling: a goroutine that can take a step again and again takes
\* it.  For a goroutine that waits for h.mu this is what sync.RWMutex gives:
\* the lock goes to a writer that keeps asking, and the readers that waited
\* for a writer get in before the next writer.  Nothing is assumed of when
\* connections submit or HTTP handlers call.
FairProgress == \A t \in Threads : SF_vars(StepOf(t))

SpecProgress == Init /\ [][NextProgress]_vars /\ FairProgress

(* ------------------------ the signaling relay ------------------------- *)

\* json.Unmarshal into SignalPayload and the Message built from it: a field
\* the text lacks is the zero value; a text that is not JSON gives no Message.
Unmarshal(text) ==
    IF "garbage" \in DOMAIN text THEN NoMsg
    ELSE [From |-> IF "from" \in DOMAIN text THEN text.from ELSE "",
          To   |-> IF "to" \in DOMAIN text THEN text.to ELSE "",
          Type |-> IF "type" \in DOMAIN text THEN text.type ELSE "",
          Data |-> IF "data" \in DOMAIN text THEN text.data ELSE Nil]

\* Mutant: the relay writes its own type for a type it does not know.
Marshal_knownTypes(msg) ==
    [from |-> msg.From, to |-> msg.To,
     type |-> IF msg.Type \in {"offer", "answer", "ice", "join"} THEN msg.Type ELSE "unknown",
     data |-> IF msg.Data = Nil THEN "null" ELSE msg.Data]

\* json.Marshal of fullMsg: the four fields; a nil RawMessage is written null.
Marshal(msg) ==
    [from |-> msg.From, to |-> msg.To, type |-> msg.Type,
     data |-> IF msg.Data = Nil THEN "null" ELSE msg.Data]

\* The handler of /ws builds the Client and sends it on h.Register.
WsConnect(c) ==
    /\ ~fault
    /\ rpc[c] = "new"
    /\ rpc' = [rpc EXCEPT ![c] = "register"]
    /\ UNCHANGED <<rclients, queue, closed, rmsg, nread, dropped, fault, lastR>>
    /\ UNCHANGED <<hubVars, lockVars, queueVars, listVars, fifoVars, callVars>>

\* Run, case Register.
RelayRegister(c) ==
    /\ ~fault
    /\ rpc[c] = "register"
    /\ rclients' = (IdOf(c) :> c) @@ rclients
    /\ rpc' = [rpc EXCEPT ![c] = "read"]
    /\ lastR' = [op |-> "register", c |-> c, msg |-> NoMsg]
    /\ UNCHANGED <<queue, closed, rmsg, nread, dropped, fault>>
    /\ UNCHANGED <<hubVars, lockVars, queueVars, listVars, fifoVars, callVars>>

\* The read loop reads a text: a payload is sent on h.Broadcast, a text that
\* does not parse is skipped.
readLoop(c, text) ==
    /\ ~fault
    /\ rpc[c] = "read"
    /\ nread < MaxReads
    /\ nread' = nread + 1
    /\ IF "garbage" \in DOMAIN text
       THEN UNCHANGED <<rpc, rmsg>>
       ELSE /\ rpc' = [rpc EXCEPT ![c] = "broadcast"]
            /\ rmsg' = [rmsg EXCEPT ![c] = Unmarshal(text)]
    /\ UNCHANGED <<rclients, queue, closed, dropped, fault, lastR>>
    /\ UNCHANGED <<hubVars, lockVars, queueVars, listVars, callVars>>

ReadMessage(c, text) == readLoop(c, text) /\ UNCHANGED fifoVars

\* The same step, with the Message recorded in the order of submission.
ReadLogged(c, text) ==
    /\ readLoop(c, text)
    /\ submitted' = IF "garbage" \in DOMAIN text THEN submitted
                    ELSE Append(submitted, [c |-> c, msg |-> Unmarshal(text)])
    /\ UNCHANGED written

\* The read loop ends on a read error; the deferred send on h.Unregister.
ReadError(c) ==
    /\ ~fault
    /\ rpc[c] = "read"
    /\ rpc' = [rpc EXCEPT ![c] = "unregister"]
    /\ UNCHANGED <<rclients, queue, closed, rmsg, nread, dropped, fault, lastR>>
    /\ UNCHANGED <<hubVars, lockVars, queueVars, listVars, fifoVars, callVars>>

\* Mutant: the Send channel is closed but the entry stays in the table.
unregisterEntry_kept(tbl, c) == tbl

\* Run, case Unregister, line 62: the entry of the client's id is deleted.
unregisterEntry(tbl, c) == Delete(tbl, IdOf(c))

\* Run, case Unregister.  close of a closed channel panics.
RelayUnregister(c) ==
    /\ ~fault
    /\ rpc[c] = "unregister"
    /\ rpc' = [rpc EXCEPT ![c] = "done"]
    /\ IF IdOf(c) \in DOMAIN rclients
       THEN /\ rclients' = unregisterEntry(rclients, c)
            /\ closed' = [closed EXCEPT ![c] = TRUE]
            /\ fault' = closed[c]
       ELSE UNCHANGED <<rclients, closed, fault>>
    /\ lastR' = [op |-> "unregister", c |-> c, msg |-> NoMsg]
    /\ UNCHANGED <<queue, rmsg, nread, dropped>>
    /\ UNCHANGED <<hubVars, lockVars, queueVars, listVars, fifoVars, callVars>>

\* Mutant: the message goes to every connection of the table.
RelayRecipients_everyone(tbl, msg) == {tbl[id] : id \in DOMAIN tbl}

\* Run, line 68: the connection the table holds for the id the message names.
RelayRecipients(tbl, msg) == IF msg.To \in DOMAIN tbl THEN {tbl[msg.To]} ELSE {}

\* Mutant: the send waits for room in the queue.
SendReady_blocking(to) == Len(queue[to]) < SendCap

\* Run, lines 86-90: select with a default case, the worker never waits.
SendReady(to) == TRUE

\* Mutant: a full queue makes room by giving up its oldest message.
Enqueue_dropOldest(q, bytes) ==
    IF Len(q) < SendCap THEN Append(q, bytes) ELSE Append(Tail(q), bytes)

\* Run, lines 86-90: the bytes are queued when the channel has room.
Enqueue(q, bytes) == IF Len(q) < SendCap THEN Append(q, bytes) ELSE q

\* Run, case Broadcast.  A send on a closed channel panics.
RelayBroadcast(c) ==
    /\ ~fault
    /\ rpc[c] = "broadcast"
    /\ LET msg == rmsg[c]
           tos == RelayRecipients(rclients, msg)
       IN /\ \A to \in tos : SendReady(to)
          /\ fault' = \E to \in tos : closed[to]
          /\ queue' = [to \in Conns |->
                          IF to \in tos /\ ~closed[to]
                          THEN Enqueue(queue[to], Marshal(msg)) ELSE queue[to]]
          /\ dropped' = IF msg.Data # Nil
                            /\ \E to \in tos : ~closed[to] /\ Len(queue[to]) >= SendCap
                         THEN dropped \cup {msg.Data}
                         ELSE dropped
          /\ lastR' = [op |-> "broadcast", c |-> c, msg |-> msg]
    /\ rpc' = [rpc EXCEPT ![c] = "read"]
    /\ rmsg' = [rmsg EXCEPT ![c] = NoMsg]
    /\ UNCHANGED <<rclients, closed, nread>>
    /\ UNCHANGED <<hubVars, lockVars, queueVars, listVars, fifoVars, callVars>>

\* Mutant: the write loop writes the text and leaves it in the channel.
ChanReceive_peek(q) == q

\* A receive from the Send channel: the channel without its oldest text.
ChanReceive(q) == Tail(q)

\* The write loop takes the next bytes from Send and writes them to the peer.
writeLoop(c) ==
    /\ ~fault
    /\ queue[c] # <<>>
    /\ queue' = [queue EXCEPT ![c] = ChanReceive(@)]
    /\ UNCHANGED <<rclients, closed, rpc, rmsg, nread, dropped, fault, lastR>>
    /\ UNCHANGED <<hubVars, lockVars, queueVars, listVars, callVars>>

WriteMessage(c) == writeLoop(c) /\ UNCHANGED fifoVars

\* The same step, with the text recorded as written; no connection is
\* written more texts than were read.
WriteLogged(c) ==
    /\ writeLoop(c)
    /\ Len(written[c]) < MaxReads
    /\ written' = [written EXCEPT ![c] = Append(@, Head(queue[c]))]
    /\ UNCHANGED submitted

NextRelay ==
    \/ \E c \in Conns : WsConnect(c)
    \/ \E c \in Conns : RelayRegister(c)
    \/ \E c \in Conns : \E text \in Texts(c, nread + 1) : ReadMessage(c, text)
    \/ \E c \in Conns : ReadError(c)
    \/ \E c \in Conns : RelayUnregister(c)
    \/ \E c \in Conns : RelayBroadcast(c)
    \/ \E c \in Conns : WriteMessage(c)

\* NewHub of the relay; the chat Hub's sessions play no part.
InitRelay == Init /\ sessions = {"c1", "c2"}

SpecRelay == InitRelay /\ [][NextRelay]_vars

\* Run: one turn of the worker's loop.
RelayWorker ==
    \E c \in Conns : RelayRegister(c) \/ RelayUnregister(c) \/ RelayBroadcast(c)

\* The worker's goroutine keeps running: when a sender waits on one of its
\* channels, its select takes one.  Nothing is assumed of the write loops.
SpecRelayFair == SpecRelay /\ WF_vars(RelayWorker)

\* The relay with the record of what was submitted and what was written.
NextFifo ==
    \/ \E c \in Conns : WsConnect(c)
    \/ \E c \in Conns : RelayRegister(c)
    \/ \E c \in Conns : \E text \in Texts(c, nread + 1) : ReadLogged(c, text)
    \/ \E c \in Conns : ReadError(c)
    \/ \E c \in Conns : RelayUnregister(c)
    \/ \E c \in Conns : RelayBroadcast(c)
    \/ \E c \in Conns : WriteLogged(c)

SpecFifo == InitRelay /\ [][NextFifo]_vars

(* --------------------- the web client's video call -------------------- *)

\* A signaling message the client sends.
Signal(to, type) == [from |-> MyId, to |-> to, type |-> type]

\* A handler suspended at an await: startCall ("start"), the acceptance of an
\* offer ("accept") or the processing of an answer ("answer"); at getUserMedia
\* ("media"), createOffer and setLocalDescription ("offer"), setRemoteDescription
\* ("remote") or createAnswer and setLocalDescription ("answer").  live: the
\* RTCPeerConnection whose operation it awaits has not been closed.
Task(kind, at, from) == [kind |-> kind, at |-> at, from |-> from, live |-> TRUE]

\* pc.close(): the operations in flight on the connection do not succeed.
Close(ts) == {IF t.at = "media" THEN t ELSE [t EXCEPT !.live = FALSE] : t \in ts}

\* endCall that leaves inCall as it was.
endCall_keepInCall(v, notifyPeer) ==
    IF ~v.inCall /\ v.pc = NoPc
    THEN [vc |-> v, sent |-> <<>>, ran |-> FALSE, ended |-> FALSE]
    ELSE [vc |-> [v EXCEPT !.pc = NoPc, !.localStream = FALSE,
                           !.isCaller = FALSE, !.pendingCandidates = <<>>,
                           !.peerIdInCall = Null],
          sent |-> IF notifyPeer /\ v.ws /\ v.peerIdInCall # Null
                   THEN <<Signal(v.peerIdInCall, "end_call")>> ELSE <<>>,
          ran |-> TRUE,
          ended |-> v.inCall]

\* endCall that notifies the peer whatever notifyPeer is.
endCall_notifyAlways(v, notifyPeer) ==
    IF ~v.inCall /\ v.pc = NoPc
    THEN [vc |-> v, sent |-> <<>>, ran |-> FALSE, ended |-> FALSE]
    ELSE [vc |-> [v EXCEPT !.inCall = FALSE, !.pc = NoPc, !.localStream = FALSE,
                           !.isCaller = FALSE, !.pendingCandidates = <<>>,
                           !.peerIdInCall = Null],
          sent |-> IF v.ws /\ v.peerIdInCall # Null
                   THEN <<Signal(v.peerIdInCall, "end_call")>> ELSE <<>>,
          ran |-> TRUE,
          ended |-> v.inCall]

\* endCall({notifyPeer}): the object after the call, the messages it sent,
\* whether it passed its first line, and whether onCallEnd fired.
endCall(v, notifyPeer) ==
    IF ~v.inCall /\ v.pc = NoPc
    THEN [vc |-> v, sent |-> <<>>, ran |-> FALSE, ended |-> FALSE]
    ELSE [vc |-> [v EXCEPT !.inCall = FALSE, !.pc = NoPc, !.localStream = FALSE,
                           !.isCaller = FALSE, !.pendingCandidates = <<>>,
                           !.peerIdInCall = Null],
          sent |-> IF notifyPeer /\ v.ws /\ v.peerIdInCall # Null
                   THEN <<Signal(v.peerIdInCall, "end_call")>> ELSE <<>>,
          ran |-> TRUE,
          ended |-> v.inCall]

\* No endCall in the step.
NoEnd == [ran |-> FALSE, ended |-> FALSE]

Event(kind, from, type, r) ==
    [kind |-> kind, from |-> from, type |-> type, ran |-> r.ran, ended |-> r.ended]

\* A handler that ends with endCall: v and ts are the object and the waiting
\* handlers when endCall is called, first the messages sent before it.
EndsCall(v, ts, first, notifyPeer, kind, from, type) ==
    LET r == endCall(v, notifyPeer) IN
    /\ vc' = r.vc
    /\ tasks' = IF v.pc # NoPc THEN Close(ts) ELSE ts
    /\ wsSent' = first \o r.sent
    /\ ev' = Event(kind, from, type, r)

\* A handler that does not call endCall.
Handles(v, ts, msgs, kind, from, type) ==
    /\ vc' = v
    /\ tasks' = ts
    /\ wsSent' = msgs
    /\ ev' = Event(kind, from, type, NoEnd)

\* this.ws.send inside a try: nothing is sent on a socket that is gone.
WsSend(v, msgs) == IF v.ws THEN msgs ELSE <<>>

OtherVars == <<hubVars, lockVars, queueVars, listVars, relayVars, fifoVars>>

\* _addPendingCandidates: the queued candidates go to the peer connection in
\* the order of the queue, and the queue is emptied.
addPendingCandidates(v) ==
    [v EXCEPT !.pc.added = @ \o v.pendingCandidates, !.pendingCandidates = <<>>]

\* _handleRemoteCandidate: added at once when the remote description is set,
\* queued when it is not, ignored without a peer connection.
handleRemoteCandidate(v, candidate) ==
    IF v.pc = NoPc THEN v
    ELSE IF v.pc.remoteDescription THEN [v EXCEPT !.pc.added = Append(@, candidate)]
    ELSE [v EXCEPT !.pendingCandidates = Append(@, candidate)]

\* No more than MaxTasks handlers wait, and no two of them at the same place.
CanAwait(ts, t) == t \notin ts /\ Cardinality(ts) < MaxTasks

\* The Start button: startCall up to its first await.
StartCall(peerId) ==
    /\ vc.ws
    /\ vc.pc = NoPc /\ ~vc.inCall
    /\ CanAwait(tasks, Task("start", "media", peerId))
    /\ Handles([vc EXCEPT !.isCaller = TRUE, !.peerIdInCall = peerId, !.inCall = TRUE,
                          !.pc = RTCPeerConnection(peerId)],
               tasks \cup {Task("start", "media", peerId)},
               <<>>, "startCall", peerId, "")
    /\ UNCHANGED nIce
    /\ UNCHANGED OtherVars

\* startCall resumes after getUserMedia: the tracks go to this.pc, and
\* createOffer starts; without a peer connection the catch block runs.
StartMedia(t) ==
    /\ t \in tasks /\ t.kind = "start" /\ t.at = "media"
    /\ LET v == [vc EXCEPT !.localStream = TRUE]
           ts == tasks \ {t}
       IN  IF v.pc = NoPc
           THEN EndsCall(v, ts, <<>>, FALSE, "resume", t.from, "start")
           ELSE /\ Task("start", "offer", t.from) \notin ts
                /\ Handles(v, ts \cup {Task("start", "offer", t.from)}, <<>>,
                           "resume", t.from, "start")
    /\ UNCHANGED nIce
    /\ UNCHANGED OtherVars

\* startCall resumes after createOffer and setLocalDescription: the offer is
\* sent; a send that throws ends the call.
StartOffer(t) ==
    /\ t \in tasks /\ t.kind = "start" /\ t.at = "offer" /\ t.live
    /\ LET v == [vc EXCEPT !.pc.localDescription = "offer"]
           ts == tasks \ {t}
       IN  IF v.ws
           THEN Handles(v, ts, <<Signal(t.from, "offer")>>, "resume", t.from, "start")
           ELSE EndsCall(v, ts, <<>>, FALSE, "resume", t.from, "start")
    /\ UNCHANGED nIce
    /\ UNCHANGED OtherVars

\* An offer arrives and the user declines it.
OfferDecline(from) ==
    /\ vc.ws
    /\ ~vc.isCaller
    /\ EndsCall(vc, tasks, <<Signal(from, "reject")>>, FALSE, "message", from, "decline")
    /\ UNCHANGED nIce
    /\ UNCHANGED OtherVars

\* An offer arrives; a caller ignores it, another client's user accepts it.
OfferAccept(from) ==
    /\ vc.ws
    /\ IF vc.isCaller
       THEN Handles(vc, tasks, <<>>, "message", from, "offer")
       ELSE /\ Cardinality(tasks) < MaxTasks
            /\ LET v == [vc EXCEPT !.isCaller = FALSE, !.peerIdInCall = from,
                                   !.inCall = TRUE]
               IN  IF ~v.localStream
                   THEN /\ Task("accept", "media", from) \notin tasks
                        /\ Handles(v, tasks \cup {Task("accept", "media", from)}, <<>>,
                                   "message", from, "offer")
                   ELSE /\ Task("accept", "remote", from) \notin tasks
                        /\ Handles([v EXCEPT !.pc = RTCPeerConnection(v.peerIdInCall)],
                                   (IF v.pc # NoPc THEN Close(tasks) ELSE tasks)
                                       \cup {Task("accept", "remote", from)},
                                   <<>>, "message", from, "offer")
    /\ UNCHANGED nIce
    /\ UNCHANGED OtherVars

\* The accepting handler resumes after getUserMedia: an existing peer
\* connection is closed, a new one is set up for this.peerIdInCall, and
\* setRemoteDescription starts.
AcceptMedia(t) ==
    /\ t \in tasks /\ t.kind = "accept" /\ t.at = "media"
    /\ Task("accept", "remote", t.from) \notin tasks
    /\ LET v == [vc EXCEPT !.localStream = TRUE]
           ts == tasks \ {t}
       IN  Handles([v EXCEPT !.pc = RTCPeerConnection(v.peerIdInCall)],
                   (IF v.pc # NoPc THEN Close(ts) ELSE ts)
                       \cup {Task("accept", "remote", t.from)},
                   <<>>, "resume", t.from, "accept")
    /\ UNCHANGED nIce
    /\ UNCHANGED OtherVars

\* The accepting handler resumes after setRemoteDescription: the queued
\* candidates are added, and createAnswer starts.
AcceptRemote(t) ==
    /\ t \in tasks /\ t.kind = "accept" /\ t.at = "remote" /\ t.live
    /\ Task("accept", "answer", t.from) \notin tasks
    /\ Handles(addPendingCandidates([vc EXCEPT !.pc.remoteDescription = TRUE]),
               (tasks \ {t}) \cup {Task("accept", "answer", t.from)},
               <<>>, "resume", t.from, "accept")
    /\ UNCHANGED nIce
    /\ UNCHANGED OtherVars

\* The accepting handler resumes after createAnswer and setLocalDescription:
\* the answer is sent to this.peerIdInCall; a send that fails ends the call.
AcceptAnswer(t) ==
    /\ t \in tasks /\ t.kind = "accept" /\ t.at = "answer" /\ t.live
    /\ LET v == [vc EXCEPT !.pc.localDescription = "answer"]
           ts == tasks \ {t}
       IN  IF v.ws
           THEN Handles(v, ts, <<Signal(v.peerIdInCall, "answer")>>,
                        "resume", t.from, "accept")
           ELSE EndsCall(v, ts, <<>>, FALSE, "resume", t.from, "accept")
    /\ UNCHANGED nIce
    /\ UNCHANGED OtherVars

\* An answer arrives.
Answer(from) ==
    /\ vc.ws
    /\ LET hasLocalOffer == vc.pc # NoPc /\ vc.pc.localDescription = "offer"
           isFromExpectedPeer == vc.peerIdInCall = Null \/ from = vc.peerIdInCall
           v == IF hasLocalOffer /\ ~vc.isCaller
                THEN [vc EXCEPT !.isCaller = TRUE, !.inCall = TRUE,
                                !.peerIdInCall = IF @ = Null THEN from ELSE @]
                ELSE vc
       IN  IF (vc.isCaller \/ (hasLocalOffer /\ isFromExpectedPeer)) /\ hasLocalOffer
           THEN /\ CanAwait(tasks, Task("answer", "remote", from))
                /\ Handles(v, tasks \cup {Task("answer", "remote", from)}, <<>>,
                           "message", from, "answer")
           ELSE Handles(vc, tasks, <<>>, "message", from, "answer")
    /\ UNCHANGED nIce
    /\ UNCHANGED OtherVars

\* The answer's handler resumes after setRemoteDescription: the queued
\* candidates are added.  A second answer is refused by the connection.
AnswerRemote(t) ==
    /\ t \in tasks /\ t.kind = "answer" /\ t.at = "remote" /\ t.live
    /\ Handles(IF vc.pc.remoteDescription THEN vc
               ELSE addPendingCandidates([vc EXCEPT !.pc.remoteDescription = TRUE]),
               tasks \ {t}, <<>>, "resume", t.from, "answer")
    /\ UNCHANGED nIce
    /\ UNCHANGED OtherVars

\* An awaited operation fails: getUserMedia is refused, a description is not
\* valid, the connection was closed.  The handler's catch block runs.
Fail(t) ==
    /\ t \in tasks
    /\ LET ts == tasks \ {t} IN
       CASE t.kind = "start" ->
                EndsCall(vc, ts, <<>>, FALSE, "fail", t.from, "start")
         [] t.kind = "accept" ->
                EndsCall(vc, ts, WsSend(vc, <<Signal(t.from, "reject")>>), FALSE,
                         "fail", t.from, "accept")
         [] t.kind = "answer" ->
                Handles(vc, ts, <<>>, "fail", t.from, "answer")
    /\ UNCHANGED nIce
    /\ UNCHANGED OtherVars

\* An ICE candidate arrives: the n-th, from the given identity.
Ice(from) ==
    /\ vc.ws
    /\ nIce < MaxIce
    /\ nIce' = nIce + 1
    /\ LET candidate == [from |-> from, n |-> nIce + 1]
           shouldProcess == ~vc.inCall \/ vc.peerIdInCall = Null
                            \/ from = vc.peerIdInCall
       IN  Handles(IF vc.pc # NoPc
                   THEN IF shouldProcess THEN handleRemoteCandidate(vc, candidate) ELSE vc
                   ELSE [vc EXCEPT !.pendingCandidates = Append(@, candidate)],
                   tasks, <<>>, "message", from, "ice")
    /\ UNCHANGED OtherVars

\* A reject arrives.
Reject(from) ==
    /\ vc.ws
    /\ EndsCall(vc, tasks, <<>>, FALSE, "message", from, "reject")
    /\ UNCHANGED nIce
    /\ UNCHANGED OtherVars

\* An end_call arrives.
EndCallMessage(from) ==
    /\ vc.ws
    /\ EndsCall(vc, tasks, <<>>, FALSE, "message", from, "end_call")
    /\ UNCHANGED nIce
    /\ UNCHANGED OtherVars

\* The End button: endCall() with its default arguments.
Hangup ==
    /\ EndsCall(vc, tasks, <<>>, TRUE, "hangup", "", "")
    /\ UNCHANGED nIce
    /\ UNCHANGED OtherVars

\* ws.onclose.
WsClose ==
    /\ vc.ws
    /\ Handles([vc EXCEPT !.ws = FALSE], tasks, <<>>, "close", "", "")
    /\ UNCHANGED nIce
    /\ UNCHANGED OtherVars

NextCall ==
    \/ \E p \in Peers : StartCall(p)
    \/ \E t \in tasks : StartMedia(t)
    \/ \E t \in tasks : StartOffer(t)
    \/ \E p \in Peers : OfferDecline(p)
    \/ \E p \in Peers : OfferAccept(p)
    \/ \E t \in tasks : AcceptMedia(t)
    \/ \E t \in tasks : AcceptRemote(t)
    \/ \E t \in tasks : AcceptAnswer(t)
    \/ \E p \in Peers : Answer(p)
    \/ \E t \in tasks : AnswerRemote(t)
    \/ \E t \in tasks : Fail(t)
    \/ \E p \in Peers : Ice(p)
    \/ \E p \in Peers : Reject(p)
    \/ \E p \in Peers : EndCallMessage(p)
    \/ Hangup
    \/ WsClose

\* The web client alone; the Hub's sessions play no part.
SpecCall == InitRelay /\ [][NextCall]_vars

(* ------------------------------ claims -------------------------------- *)

\* The rooms whose member set holds user id u.
RoomsOf(rms, u) == {r \in DOMAIN rms : u \in rms[r].Users}

\* The messages of a sequence of sends that satisfy a type and a room.
Copies(s, type, r) == {i \in 1..Len(s) : s[i].Type = type /\ s[i].Room = r}

Range(s) == {s[i] : i \in 1..Len(s)}

IsText(m) == m.Type = "text"

\* A step that changes nothing of the Hub's tables and of the clients' pointers.
HubStateUnchanged ==
    /\ clients' = clients
    /\ userClients' = userClients
    /\ rooms' = rooms
    /\ roomID' = roomID
    /\ userRoom' = userRoom

\* C1 (I1): at every point each user id is in the member set of at most one
\* room.
C1_AtMostOneRoom == \A u \in UserIds : Cardinality(RoomsOf(rooms, u)) <= 1

\* C2 (I2): the keys of the user-routing table are exactly the user ids of the
\* registered clients.
C2_RoutingKeysAreRegisteredUsers == DOMAIN userClients = {UserOf(c) : c \in clients}

\* C3 (I3): every room's history equals the broadcastRoom messages processed
\* for it while it existed, in processing order and without duplicates; a step
\* leaves a history unchanged or appends exactly the message of the
\* broadcastRoom it processes for that room; a room that appears starts with
\* an empty history and no room disappears.
C3_HistoryAppendOnly ==
    /\ [](\A r \in DOMAIN rooms :
            /\ rooms[r].Messages = accepted[r]
            /\ \A i, j \in 1..Len(rooms[r].Messages) :
                 rooms[r].Messages[i] = rooms[r].Messages[j] => i = j)
    /\ [][/\ DOMAIN rooms \subseteq DOMAIN rooms'
          /\ \A r \in DOMAIN rooms' :
               IF r \in DOMAIN rooms
               THEN \/ rooms'[r].Messages = rooms[r].Messages
                    \/ /\ lastOp'.op = "broadcast" /\ lastOp'.r = r
                       /\ Len(rooms'[r].Messages) = Len(rooms[r].Messages) + 1
                       /\ SubSeq(rooms'[r].Messages, 1, Len(rooms[r].Messages))
                            = rooms[r].Messages
                       /\ rooms'[r].Messages[Len(rooms'[r].Messages)].ID = lastOp'.id
               ELSE rooms'[r].Messages = <<>>]_vars

\* C3 witness: a second broadcast has been appended to a room's history.
C3_Witness ==
    /\ lastOp.op = "broadcast"
    /\ lastOp.r \in DOMAIN rooms
    /\ Len(rooms[lastOp.r].Messages) = 2
    /\ rooms[lastOp.r].Messages[2].ID = lastOp.id

\* C4 (replay completeness): the text messages a joinRoom hands to the joining
\* client are exactly the N messages broadcast to the room before, in their
\* order, and go to no other client; a message broadcast by the next operation
\* is none of the replayed ones and so arrives after them.
C4_ReplayCompleteness ==
    /\ [](lastOp.op = "join" =>
            /\ SelectSeq(sent[lastOp.c], IsText) = accepted[lastOp.r]
            /\ \A d \in Clients \ {lastOp.c} : SelectSeq(sent[d], IsText) = <<>>)
    /\ [][(lastOp.op = "join" /\ lastOp'.op = "broadcast") =>
            \A m \in Range(sent'[lastOp.c]) : m \notin Range(sent[lastOp.c])]_vars

\* C4 witness: a client joined a room after two broadcasts and got both.
C4_Witness ==
    /\ lastOp.op = "join"
    /\ Len(accepted[lastOp.r]) = 2
    /\ Len(SelectSeq(sent[lastOp.c], IsText)) = 2

\* C5 (idempotent leave): right after a leaveRoom, the same leaveRoom (same
\* client, same room) applied again changes no member set and sends no message
\* to anyone.
C5_SecondLeaveSilent ==
    lastOp.op = "leave" =>
      /\ leaveRooms(rooms, lastOp.c, lastOp.r) = rooms
      /\ leaveSends(leaveRooms(rooms, lastOp.c, lastOp.r), userClients,
                    lastOp.c, lastOp.r) = NoSends

\* C6: a leaveRoom for a room the client's user is not a member of changes no
\* member set, no room pointer and no user's current room, and sends nothing.
C6_LeaveNonMemberNoOp ==
    [][(lastOp'.op = "leave"
        /\ ~(lastOp'.r \in DOMAIN rooms /\ UserOf(lastOp'.c) \in rooms[lastOp'.r].Users)) =>
         /\ rooms' = rooms
         /\ roomID' = roomID
         /\ userRoom' = userRoom
         /\ sent' = NoSends]_vars

\* C7 (room switch): when a client whose pointer is A and whose user is a
\* member of A joins another room B, afterwards the user is a member of B only,
\* the pointer is B, the handle of each remaining member of A got exactly one
\* leave message for A, and wherever both arrive the leave precedes the join.
C7_RoomSwitch ==
    [][(/\ lastOp'.op = "join"
        /\ roomID[lastOp'.c] # NoRoom
        /\ roomID[lastOp'.c] # lastOp'.r
        /\ roomID[lastOp'.c] \in DOMAIN rooms
        /\ UserOf(lastOp'.c) \in rooms[roomID[lastOp'.c]].Users) =>
         LET c == lastOp'.c
             a == roomID[c]
             b == lastOp'.r
         IN /\ RoomsOf(rooms', UserOf(c)) = {b}
            /\ roomID'[c] = b
            /\ \A v \in rooms'[a].Users :
                 v \in DOMAIN userClients =>
                   Cardinality(Copies(sent'[userClients[v]], "leave", a)) = 1
            /\ \A d \in Clients :
                 \A i \in Copies(sent'[d], "leave", a) :
                   \A j \in Copies(sent'[d], "join", b) : i < j]_vars

C9_BroadcastUnknownRoom ==
    /\ [][(lastOp'.op = "broadcast" /\ lastOp'.r \notin DOMAIN rooms) =>
            /\ HubStateUnchanged
            /\ accepted' = accepted
            /\ running'
            /\ sent' = NoSends]_vars
    /\ []((lastOp.op = "broadcast" /\ lastOp.r \notin DOMAIN rooms) =>
            ENABLED (\E c \in sessions : Unregister(c)))

\* C9 witness: a broadcast named a room that does not exist while a client is
\* registered.
C9_Witness ==
    /\ lastOp.op = "broadcast"
    /\ lastOp.r = "dev"
    /\ "dev" \notin DOMAIN rooms
    /\ clients # {}

\* C10: a sendPrivate changes no Hub state; when the user id is bound the
\* bound handle gets exactly the message and nobody else gets anything, when
\* it is not bound nobody gets anything.
C10_PrivateDelivery ==
    [][lastOp'.op = "private" =>
         /\ HubStateUnchanged
         /\ \A c \in Clients :
              IF lastOp'.r \in DOMAIN userClients /\ userClients[lastOp'.r] = c
              THEN \E u \in Senders :
                     sent'[c] = <<Message(0, "private", "psst", u, NoRoom)>>
              ELSE sent'[c] = <<>>]_vars

\* C10 witness: a private message reached a user who is in no room while the
\* other user is in one.
C10_Witness ==
    /\ lastOp.op = "private"
    /\ lastOp.r \in DOMAIN userClients
    /\ Len(sent[userClients[lastOp.r]]) = 1
    /\ RoomsOf(rooms, lastOp.r) = {}
    /\ \E r \in DOMAIN rooms : rooms[r].Users # {}

\* C11 (auto-provisioning): a joinRoom for a room id that is not in the room
\* table creates a room whose id and name are that id, with an empty history
\* and with exactly the joining user as member; afterwards listRooms contains
\* that room with a user count of 1 and the client's room pointer is that id.
C11_AutoProvisioning ==
    [][(lastOp'.op = "join" /\ lastOp'.r \notin DOMAIN rooms) =>
         LET c == lastOp'.c
             r == lastOp'.r
         IN /\ r \in DOMAIN rooms'
            /\ rooms'[r] = [ID |-> r, Name |-> r, Users |-> {UserOf(c)}, Messages |-> <<>>]
            /\ [id |-> r, name |-> r, user_count |-> 1] \in listRooms(rooms')
            /\ roomID'[c] = r]_vars

\* C11 witness: a join has just created the room dev, while the default room
\* has a member and a history.
C11_Witness ==
    /\ lastOp.op = "join"
    /\ lastOp.r = "dev"
    /\ rooms["dev"].Users = {UserOf(lastOp.c)}
    /\ rooms["dev"].Messages = <<>>
    /\ rooms["general"].Users # {}
    /\ rooms["general"].Messages # <<>>

\* C12: the Hub starts with no rooms, and a step adds a room to the room
\* table only when it is a createRoom, or a joinRoom that names an id not yet
\* in the table, and then it adds that room alone.
C12_RoomsOnlyOnFirstReference ==
    /\ (lastOp.op = "new" => DOMAIN rooms = {})
    /\ [][DOMAIN rooms' # DOMAIN rooms =>
            /\ lastOp'.op \in {"create", "join"}
            /\ lastOp'.r \notin DOMAIN rooms
            /\ DOMAIN rooms' = DOMAIN rooms \cup {lastOp'.r}]_vars

\* C13: a register adds the client to the client set and binds its user id
\* to it in the routing table, and hands that client exactly two system
\* messages: first the welcome, then the list of all current rooms; no other
\* client gets anything and no room's member set or history changes.
C13_RegisterGreeting ==
    [][lastOp'.op = "register" =>
         LET c == lastOp'.c
         IN /\ clients' = clients \cup {c}
            /\ UserOf(c) \in DOMAIN userClients'
            /\ userClients'[UserOf(c)] = c
            /\ Len(sent'[c]) = 2
            /\ sent'[c][1] = WelcomeMessage
            /\ sent'[c][2].Type = "system"
            /\ sent'[c][2].Content # WelcomeMessage.Content
            /\ \E order \in Orders(DOMAIN rooms) :
                 sent'[c][2].Content = getRoomsList(rooms, order)
            /\ \A d \in Clients \ {c} : sent'[d] = <<>>
            /\ rooms' = rooms]_vars

\* C13 witness: a client registered while three rooms exist and the other
\* client sits in one of them.
C13_Witness ==
    /\ lastOp.op = "register"
    /\ Len(sent[lastOp.c]) = 2
    /\ Cardinality(DOMAIN rooms) = 3
    /\ \E d \in clients \ {lastOp.c} : roomID[d] # NoRoom

\* C14 (last-register-wins): when a client is registered with a user id that
\* is bound to another registered client, afterwards the routing table maps
\* the id to the new client and the prior client is no longer a registered
\* client; and a private message to a bound id goes to the bound client only.
C14_LastRegisterWins ==
    /\ [][(/\ lastOp'.op = "register"
           /\ UserOf(lastOp'.c) \in DOMAIN userClients
           /\ userClients[UserOf(lastOp'.c)] # lastOp'.c
           /\ userClients[UserOf(lastOp'.c)] \in clients) =>
            /\ userClients'[UserOf(lastOp'.c)] = lastOp'.c
            /\ userClients[UserOf(lastOp'.c)] \notin clients']_vars
    /\ [][(lastOp'.op = "private" /\ lastOp'.r \in DOMAIN userClients) =>
            \A d \in Clients :
              sent'[d] # <<>> <=> d = userClients[lastOp'.r]]_vars

C16_UnregisterIdempotent ==
    [][(lastOp'.op = "unregister" /\ lastOp'.c \notin clients) =>
         /\ HubStateUnchanged
         /\ sent' = NoSends]_vars

\* C16 witness: a client that is not registered was unregistered while
\* another client holds its user id and sits in a room.
C16_Witness ==
    /\ lastOp.op = "unregister"
    /\ lastOp.c \notin clients
    /\ UserOf(lastOp.c) \in DOMAIN userClients
    /\ roomID[userClients[UserOf(lastOp.c)]] # NoRoom

\* The access thread t is performing.
Touch(t) == Accesses(job[t])[step[t]]

\* Thread t is writing a table.
Writing(t) == pc[t] = "body" /\ Touch(t)[2] = "w"

\* Thread t is inside GetRooms or GetUsers, reading under the read lock.
Listing(t) == pc[t] = "body" /\ job[t] \in {"GetRooms", "GetUsers"}

\* The table of the Hub a field belongs to: a room's member set and history
\* are part of the room table.
TableOf(field) == IF field \in {"rooms", "members", "history"} THEN "rooms" ELSE field

\* The writes of a call: the places of its accesses that change a table.
Writes(k) == {i \in 1..Len(Accesses(k)) : Accesses(k)[i][2] = "w"}

\* Thread t is part-way through changing the tables: its first write has
\* begun and its last write is not over.
PartWay(t) ==
    /\ pc[t] = "body"
    /\ \E i \in Writes(job[t]) : i <= step[t]
    /\ \E i \in Writes(job[t]) : step[t] <= i

\* C17: operations are applied one at a time: no two threads are part-way
\* through changing the tables at the same time, and no thread is inside
\* listRooms / listConnectedUsers reading a table while another thread is
\* part-way through an operation that changes that table.
C17_OneAtATime ==
    \A t \in Threads : \A u \in Threads \ {t} :
      /\ ~(PartWay(t) /\ PartWay(u))
      /\ ~(/\ Listing(t)
           /\ PartWay(u)
           /\ \E i \in Writes(job[u]) :
                TableOf(Accesses(job[u])[i][1]) = TableOf(Touch(t)[1]))

\* C18: every write of a table is made by the thread that holds the write
\* lock, so that while a thread holds the read lock inside listRooms /
\* listConnectedUsers no other thread writes.
C18_WritesUnderExclusiveLock ==
    /\ \A t \in Threads : Writing(t) => mu.w = t
    /\ \A t \in Threads :
         (Listing(t) /\ t \in mu.r) => \A u \in Threads \ {t} : ~Writing(u)

\* C19: the worker applies the submissions of concurrent callers in the
\* order in which their submit calls started.
C19_SubmissionOrder ==
    \A i, j \in 1..Len(applied) :
      i < j => StartedAt(applied[i]) < StartedAt(applied[j])

\* The submissions of caller p among a sequence of submissions.
OfCaller(seq, p) == LET Mine(x) == x.p = p IN SelectSeq(seq, Mine)

\* C20: whatever the other connections submit, the operations the worker has
\* applied for one connection are the first operations that connection
\* submitted, in the sequence it submitted them, and the operation the worker
\* is applying is the connection's next one.
C20_ConnectionOrder ==
    \A p \in Callers :
      /\ \A i \in 1..Len(OfCaller(applied, p)) :
           /\ OfCaller(applied, p)[i].n = i
           /\ OfCaller(applied, p)[i].ch = Program(p)[i]
      /\ cur.p = p => cur.n = Len(OfCaller(applied, p)) + 1

\* C20 witness: both connections had two operations applied, and one of them
\* was applied before an operation of the other connection that was submitted
\* earlier.
C20_Witness ==
    /\ \A p \in Callers : Len(OfCaller(applied, p)) >= 2
    /\ \E i, j \in 1..Len(applied) :
         /\ i < j
         /\ applied[i].p # applied[j].p
         /\ StartedAt(applied[j]) < StartedAt(applied[i])

\* The step is the relay worker's case Broadcast, for the message lastR'.msg.
Forwards == lastR'.op = "broadcast" /\ rpc[lastR'.c] = "broadcast" /\ rpc'[lastR'.c] = "read"

\* The four fields of the envelope the relay writes for a Message.
Envelope(msg, env) ==
    /\ DOMAIN env = {"from", "to", "type", "data"}
    /\ env.from = msg.From
    /\ env.to = msg.To
    /\ env.type = msg.Type
    /\ env.data = IF msg.Data = Nil THEN "null" ELSE msg.Data

\* C21 as stated: a message addressed to an id of the table is put on the
\* queue of that id's connection and on no other queue; a message addressed
\* to an id that is not in the table changes no queue and not the table, and
\* the worker does not fault.
C21_ForwardOrDrop ==
    [][Forwards =>
         LET msg == lastR'.msg
         IN /\ rclients' = rclients
            /\ ~fault'
            /\ IF msg.To \in DOMAIN rclients
               THEN queue' = [queue EXCEPT ![rclients[msg.To]] = Append(@, Marshal(msg))]
               ELSE queue' = queue]_vars

\* C21, amended: a message addressed to an id of the table whose connection's
\* queue has room is put on that queue and on no other queue; a message
\* addressed to an id that is not in the table changes no queue and not the
\* table, and the worker does not fault.
C21_ForwardUnlessFull ==
    [][Forwards =>
         LET msg == lastR'.msg
         IN /\ rclients' = rclients
            /\ ~fault'
            /\ (msg.To \in DOMAIN rclients /\ Len(queue[rclients[msg.To]]) < SendCap) =>
                 queue' = [queue EXCEPT ![rclients[msg.To]] = Append(@, Marshal(msg))]
            /\ msg.To \notin DOMAIN rclients => queue' = queue]_vars

\* C21 witness: after the connection of b was unregistered, a message
\* addressed to b was dropped while a message sits in the queue of a.
C21_Witness ==
    /\ lastR.op = "broadcast"
    /\ lastR.msg.To = "b"
    /\ "b" \notin DOMAIN rclients
    /\ rpc["r2"] = "done"
    /\ "a" \in DOMAIN rclients
    /\ queue[rclients["a"]] # <<>>
    /\ queue["r2"] = <<>>

\* C22: the envelope the relay puts on the recipient's queue carries exactly
\* the from, to, type and data of the submitted message (a message without
\* data is written with data null), whatever the type, and a forward never
\* changes the relay's table.
C22_EnvelopeVerbatim ==
    [][Forwards =>
         LET msg == lastR'.msg
         IN /\ rclients' = rclients
            /\ \A c \in Conns :
                 queue'[c] # queue[c] =>
                   /\ queue'[c] = Append(queue[c], queue'[c][Len(queue'[c])])
                   /\ Envelope(msg, queue'[c][Len(queue'[c])])
            /\ (msg.To \in DOMAIN rclients /\ Len(queue[rclients[msg.To]]) < SendCap) =>
                 queue'[rclients[msg.To]] # queue[rclients[msg.To]]]_vars

\* C22 witness: a message of a type the relay does not know, without data,
\* is on the recipient's queue.
C22_Witness ==
    /\ lastR.op = "broadcast"
    /\ lastR.msg.Type = "zzz"
    /\ lastR.msg.To \in DOMAIN rclients
    /\ queue[rclients[lastR.msg.To]]
         = <<[from |-> lastR.msg.From, to |-> lastR.msg.To, type |-> "zzz", data |-> "null"]>>

\* C23 (saturated queue): a forward to a connection whose queue is full
\* leaves every queue as it was; no queue ever holds more than its capacity;
\* and a message that was dropped is in no queue at any later time.
C23_SaturatedDrop ==
    /\ [][(/\ Forwards
           /\ lastR'.msg.To \in DOMAIN rclients
           /\ Len(queue[rclients[lastR'.msg.To]]) >= SendCap) =>
            queue' = queue]_vars
    /\ [](\A c \in Conns : Len(queue[c]) <= SendCap)
    /\ [](\A c \in Conns : \A i \in 1..Len(queue[c]) : queue[c][i].data \notin dropped)

\* C23 witness: the last message was dropped on a full queue, which holds
\* what it held before.
C23_Witness ==
    /\ dropped # {}
    /\ \E c \in Conns :
         /\ Len(queue[c]) = SendCap
         /\ \A d \in dropped : \A i \in 1..Len(queue[c]) : queue[c][i].data # d
    /\ lastR.op = "broadcast"
    /\ lastR.msg.Data \in dropped

\* C24: every register, unregister and forward that a connection submits is
\* eventually processed by the relay worker, whether or not the write loops
\* drain the queues.
C24_WorkerNeverStalls ==
    \A c \in Conns :
      (rpc[c] \in {"register", "unregister", "broadcast"}) ~> (rpc[c] \in {"read", "done"})

\* C24 witness: a forward to a full queue has been processed and its sender
\* is back in its read loop.
C24_Witness ==
    /\ lastR.op = "broadcast"
    /\ lastR.msg.Data \in dropped
    /\ rpc[lastR.c] = "read"
    /\ \E c \in Conns : Len(queue[c]) = SendCap

\* C25: the relay worker never faults: it never sends on a Send channel that
\* has been closed and never closes a Send channel twice, for any
\* interleaving of connections that register once and unregister once after
\* their read loop, connections with the same id included.
C25_WorkerNeverFaults ==
    /\ [](~fault)
    /\ [](\A id \in DOMAIN rclients : ~closed[rclients[id]])
    /\ [][\A c \in Conns : closed[c] => closed'[c]]_vars

\* C25 witness: two connections with the same id have both unregistered, the
\* Send channel of one of them was closed, and a message addressed to their
\* id was processed afterwards.
C25_Witness ==
    /\ rpc["r1"] = "done" /\ rpc["r3"] = "done"
    /\ closed["r1"] # closed["r3"]
    /\ lastR.op = "broadcast"
    /\ lastR.msg.To = "a"

\* Every user id in a member set is the user id of a registered client.
C26_Members ==
    \A r \in DOMAIN rooms : \A u \in rooms[r].Users : \E c \in clients : UserOf(c) = u

\* The step that unregisters a registered client leaves its user a member
\* of no room.
C26_Unregistered ==
    \A c \in clients :
        (lastOp'.op = "unregister" /\ lastOp'.c = c /\ c \notin clients') =>
            RoomsOf(rooms', UserOf(c)) = {}

\* A client that has just registered, no other connection of its user being
\* registered, has no room pointer and its user is a member of no room.
C26_Fresh ==
    (lastOp.op = "register" /\
     \A d \in clients \ {lastOp.c} : UserOf(d) # UserOf(lastOp.c)) =>
        roomID[lastOp.c] = NoRoom /\ RoomsOf(rooms, UserOf(lastOp.c)) = {}

\* C26 (identity life cycle): at every point every user id in a member set
\* is the user id of a registered client; after an unregister of a client
\* its user is a member of no room; and an identity that registers again
\* starts registered with no room.
C26_MembersAreRegistered ==
    /\ []C26_Members
    /\ [][C26_Unregistered]_vars
    /\ []C26_Fresh

\* C28: GetRooms and GetUsers change no Hub state, and what their result
\* shows, the set of rooms with the member set and the history of each and
\* the set of connected users, stays what it was at the time of the call.
C28_SnapshotIsolated ==
    /\ [][listed' # listed => UNCHANGED hubVars]_vars
    /\ []("GetUsers" \in listed.calls => listed.users = shown.users)
    /\ []("GetRooms" \in listed.calls =>
            /\ DOMAIN listed.rooms = DOMAIN shown.rooms
            /\ \A id \in DOMAIN listed.rooms :
                 /\ Deref(rooms, listed.rooms[id]).Users = shown.rooms[id].Users
                 /\ Deref(rooms, listed.rooms[id]).Messages = shown.rooms[id].Messages)

\* Thread t is inside CreateRoom and another thread is inside an operation
\* of the worker's loop or inside another call of an HTTP handler.
C27_Overlap(t) ==
    /\ pc[t] = "body" /\ job[t] = "CreateRoom"
    /\ \E u \in Threads \ {t} : pc[u] = "body" /\ job[u] # "Run"

C29_Rejoins(c, r) ==
    /\ lastOp'.op = "join" /\ lastOp'.c = c /\ lastOp'.r = r
    /\ c \in clients
    /\ roomID[c] = r
    /\ r \in DOMAIN rooms
    /\ UserOf(c) \in rooms[r].Users

\* C29 (re-joining the current room): a join of room R by a client that is
\* in R hands every other member of R one leave message and then one join
\* message, hands the client the join message and then the history of R, and
\* leaves the user a member of R, the room pointer R and the history of R as
\* it was.
C29_RejoinCycle ==
    [][\A c \in Clients : \A r \in NamedRooms :
         C29_Rejoins(c, r) =>
           /\ \A u \in rooms[r].Users \ {UserOf(c)} :
                \E d \in Clients :
                    /\ UserOf(d) = u
                    /\ sent'[d] = <<LeaveMessage(c, r), JoinMessage(c, r)>>
           /\ sent'[c] = <<JoinMessage(c, r)>> \o rooms[r].Messages
           /\ UserOf(c) \in rooms'[r].Users
           /\ roomID'[c] = r
           /\ rooms'[r].Messages = rooms[r].Messages]_vars

\* The users an operation of client c can take out of a member set.
C30_Leaver(c) == IF c \in Clients THEN {UserOf(c)} ELSE {}

\* C30 (rooms are never destroyed): every step keeps every room of the table
\* in the table under its id, with its id and its name, and does not put a
\* new room in its place: its history is only appended to and no member
\* other than the user of the operation leaves it.
C30_RoomsNeverDestroyed ==
    [][\A r \in DOMAIN rooms :
         /\ r \in DOMAIN rooms'
         /\ rooms'[r].ID = rooms[r].ID
         /\ rooms'[r].Name = rooms[r].Name
         /\ Len(rooms'[r].Messages) >= Len(rooms[r].Messages)
         /\ SubSeq(rooms'[r].Messages, 1, Len(rooms[r].Messages)) = rooms[r].Messages
         /\ (rooms[r].Users \ rooms'[r].Users) \subseteq C30_Leaver(lastOp'.c)]_vars

\* A client has just disconnected and the room that a join created has no
\* member left: it is in the table with its name and its history.
C30_Witness ==
    /\ lastOp.op = "unregister"
    /\ lastOp.c \notin clients
    /\ "dev" \in DOMAIN rooms
    /\ rooms["dev"].Name = "dev"
    /\ rooms["dev"].Users = {}
    /\ rooms["dev"].Messages # <<>>

\* Connection c has been registered by the relay and its unregister has not
\* been processed.
C31_Registered(c) == rpc[c] \in {"read", "broadcast", "unregister"}

\* C31 (relay routing table): at every point the table holds id X exactly
\* when a connection with id X is registered and not yet unregistered; a
\* register makes the table map the id to the connection registered; and the
\* unregister of a connection that is not the one the table holds for its id
\* leaves the table as it is.
C31_RelayTable ==
    /\ [](\A id \in RelayIds :
            id \in DOMAIN rclients <=> \E c \in Conns : IdOf(c) = id /\ C31_Registered(c))
    /\ [][\A c \in Conns :
            (rpc[c] = "register" /\ rpc'[c] = "read") =>
                IdOf(c) \in DOMAIN rclients' /\ rclients'[IdOf(c)] = c]_vars
    /\ [][\A c \in Conns :
            (/\ rpc[c] = "unregister" /\ rpc'[c] = "done"
             /\ IdOf(c) \in DOMAIN rclients /\ rclients[IdOf(c)] # c) =>
                rclients' = rclients]_vars

\* The step processes the unregister of client a while client b, registered
\* after a under the same user id, holds the routing entry of that id.
C32_OldUnregisters(a, b) ==
    /\ a \in clients /\ b \in clients /\ a # b
    /\ UserOf(a) = UserOf(b)
    /\ UserOf(b) \in DOMAIN userClients /\ userClients[UserOf(b)] = b
    /\ lastOp'.op = "unregister" /\ lastOp'.c = a
    /\ a \notin clients'

\* C32 (reconnect): when the unregister of A is processed after B has
\* registered with A's user id, B stays reachable: the routing table maps the
\* id to B, a private message to the id is handed to B, a broadcast to the
\* room B joined is handed to B, and GetUsers lists the id.
C32_ReconnectReachable ==
    [][\A a \in Clients : \A b \in Clients :
         C32_OldUnregisters(a, b) =>
           LET m == Message(0, "text", "hi", "u2", roomID[b])
           IN /\ b \in clients'
              /\ UserOf(b) \in DOMAIN userClients'
              /\ userClients'[UserOf(b)] = b
              /\ SendMessage(NoSends, userClients'[UserOf(b)], m)[b] = <<m>>
              /\ (roomID[b] # NoRoom /\ roomID[b] # roomID[a]) =>
                    broadcastToRoom(rooms', userClients', NoSends, roomID[b], m)[b] = <<m>>
              /\ UserOf(b) \in DOMAIN GetUsers(userClients')]_vars

\* C33 (room pointer consistency): in every state, for every registered
\* client, the room pointer is r exactly when the client's user is in the
\* member set of room r, and the pointer is empty exactly when the user is
\* in no member set.
C33_PointerConsistency ==
    \A c \in clients :
        /\ \A r \in DOMAIN rooms : roomID[c] = r <=> UserOf(c) \in rooms[r].Users
        /\ roomID[c] = NoRoom <=> RoomsOf(rooms, UserOf(c)) = {}

\* C35 (relay teardown): in every state, a connection whose read loop has
\* ended and whose unregister the worker has processed has its Send channel
\* closed, so that the range of its write loop ends.
C35_TeardownCloses ==
    \A c \in Conns : rpc[c] = "done" => closed[c]

\* What connection d has been handed: the texts its write loop has written
\* and then the texts in its Send channel.
C34_Delivered(d) == written[d] \o queue[d]

\* The submissions whose envelope is the text env.
C34_Origins(env) == {k \in 1..Len(submitted) : Marshal(submitted[k].msg) = env}

C36_Waiting(p) == Submitted(p) > Len(OfCaller(applied, p))

\* C36 (Hub progress): under fair scheduling every submission of a caller
\* is received and applied by its handler, which releases the caller; and
\* every call of CreateRoom, GetRooms and GetUsers returns.
C36_HubProgress ==
    /\ \A p \in Callers : C36_Waiting(p) ~> (~C36_Waiting(p) /\ ~Blocked(p))
    /\ \A t \in Threads \ {"worker"} : (pc[t] = "lock") ~> (pc[t] = "idle")

\* The submissions of both connections have been applied while an HTTP
\* handler holds the read lock and another waits for the write lock.
C36_Witness ==
    /\ Len(applied) = MaxSubmits
    /\ \A p \in Callers : OfCaller(applied, p) # <<>>
    /\ \E t, u \in Threads \ {"worker"} :
         /\ t \in mu.r
         /\ mu.ann = u /\ mu.w = NoThread

\* The last step was a handler that consists of a call of endCall: the End
\* button, an incoming reject, an incoming end_call.
C37_OnlyEndCall ==
    \/ ev.kind = "hangup"
    \/ ev.kind = "message" /\ ev.type \in {"reject", "end_call"}

\* C37: onCallEnd fires only in a step that takes the client from inCall to
\* not inCall, so once per call that was in progress; an endCall made when no
\* call is in progress and no peer connection exists changes nothing of the
\* object and sends nothing; after an endCall that ran there is no peer
\* connection, inCall and isCaller are false, peerIdInCall is null and the
\* queue of pending candidates is empty.
C37_EndCallOnce ==
    [][/\ ev'.ended => (vc.inCall /\ ~vc'.inCall)
       /\ (C37_OnlyEndCall' /\ ~vc.inCall /\ vc.pc = NoPc)
              => (vc' = vc /\ wsSent' = <<>> /\ ~ev'.ran /\ ~ev'.ended)
       /\ ev'.ran => /\ vc'.pc = NoPc
                     /\ ~vc'.inCall
                     /\ ~vc'.isCaller
                     /\ vc'.peerIdInCall = Null
                     /\ vc'.pendingCandidates = <<>>]_vars

\* The user hung up a call in which a candidate had been added, and the peer
\* was told.
C37_Witness ==
    /\ ev.kind = "hangup" /\ ev.ran /\ ev.ended
    /\ wsSent # <<>>
    /\ vc.pc = NoPc /\ ~vc.inCall
    /\ nIce > 0

\* The end_call messages among the messages of a step.
C38_EndCalls(msgs) == {i \in 1..Len(msgs) : msgs[i].type = "end_call"}

\* C38: a handler of an incoming reject or end_call sends no end_call; an
\* end_call is sent only by the End button's endCall, at most one per click
\* and addressed to the peer of the call that is ended.  No message received
\* makes the client send an end_call, so two clients cannot answer each
\* other's end_call with another.
C38_NotifyOnlyOnHangup ==
    [][/\ (ev'.kind = "message" /\ ev'.type \in {"reject", "end_call"})
              => C38_EndCalls(wsSent') = {}
       /\ C38_EndCalls(wsSent') # {} => ev'.kind = "hangup"
       /\ ev'.kind = "hangup"
              => /\ Cardinality(C38_EndCalls(wsSent')) <= 1
                 /\ Len(wsSent') <= 1
                 /\ \A i \in C38_EndCalls(wsSent') :
                        /\ vc.peerIdInCall # Null
                        /\ wsSent'[i] = Signal(vc.peerIdInCall, "end_call")]_vars

\* An end_call from the peer ended a call in progress, and nothing was sent.
C38_Witness ==
    /\ ev.kind = "message" /\ ev.type = "end_call"
    /\ ev.ran /\ ev.ended
    /\ wsSent = <<>>

\* The client is in a call with p: inCall, peerIdInCall p, and a peer
\* connection set up for p that has its local and its remote description.
C39_InCallWith(v, p) ==
    /\ v.inCall /\ v.peerIdInCall = p
    /\ v.pc # NoPc /\ v.pc.peer = p
    /\ v.pc.localDescription \in {"offer", "answer"} /\ v.pc.remoteDescription

\* C39: while the client is in a call with b, a reject or an end_call whose
\* from is c, and the decline of an offer from c, leave the peer connection,
\* inCall and peerIdInCall as they were.
C39_ThirdPartyCannotEnd ==
    [][(/\ C39_InCallWith(vc, "b")
        /\ ev'.kind = "message" /\ ev'.from = "c"
        /\ ev'.type \in {"reject", "end_call", "decline"})
           => (vc'.pc = vc.pc /\ vc'.inCall /\ vc'.peerIdInCall = "b")]_vars

\* C40: the candidates added to a peer connection are candidates of the call
\* the connection was set up for, that is, they were sent by its peer: a
\* candidate that was queued for another call is not among them.
C40_NoStaleCandidate ==
    vc.pc # NoPc => \A i \in 1..Len(vc.pc.added) : vc.pc.added[i].from = vc.pc.peer

====
